---- MODULE Spec2Model ----
(***************************************************************************)
(* Model of the SearchWindow extension: the host side                      *)
(* (FileSearchViewProvider.ts: search handler, _calculateRank,             *)
(* _compareFilesByRelevance, _boldMatchingText) and the webview script     *)
(* (media/main.js: debounced search requests, the 'results' listener, the  *)
(* suffix filter, keyboard navigation and item clicks).                    *)
(*                                                                         *)
(* A JavaScript string is a sequence of UTF-16 code units; a code unit is  *)
(* written as a TLA+ string: "a", "A", ".", "[", " ", "," and, for the     *)
(* code units outside ASCII, "U+0130" (LATIN CAPITAL LETTER I WITH DOT     *)
(* ABOVE) and "U+0307" (COMBINING DOT ABOVE). Offsets are 0-based as in    *)
(* the source.                                                             *)
(***************************************************************************)
EXTENDS Integers, Sequences, FiniteSets, TLC

VARIABLES
    \* --- harness of the pure functions (one call each)
    filenameA,      \* first filename argument
    filenameB,      \* second filename argument (_compareFilesByRelevance)
    query,          \* query argument
    caseSensitive,  \* caseSensitive argument
    pc,             \* "call" before the function is applied, "done" after
    out,            \* the value the function returned
    \* --- extension host (FileSearchViewProvider.resolveWebviewView)
    workspace,      \* what vscode.workspace.findFiles('**/*') enumerates
    toHost,         \* messages posted by the webview, not yet handled
    awaiting,       \* 'search' handlers suspended at `await findFiles`
    toWebview,      \* messages posted by the host, not yet delivered
    hostError,      \* an exception escaped the message handler
    \* --- webview (media/main.js)
    searchInput,    \* searchInput.value
    filterInput,    \* filterInput.value
    isCaseSensitive,
    useRegex,
    searchTimeout,  \* TRUE while the debounce timer is armed
    allResults,
    results,
    selectedIndex,
    viewError,      \* an exception escaped a listener of the webview
    \* --- history (not program state)
    sent            \* the 'search' requests posted so far, oldest first

vars == <<filenameA, filenameB, query, caseSensitive, pc, out,
          workspace, toHost, awaiting, toWebview, hostError,
          searchInput, filterInput, isCaseSensitive, useRegex, searchTimeout,
          allResults, results, selectedIndex, viewError, sent>>

pureVars == <<filenameA, filenameB, query, caseSensitive, pc, out>>
hostVars == <<workspace, toHost, awaiting, toWebview, hostError>>
viewVars == <<searchInput, filterInput, isCaseSensitive, useRegex,
              searchTimeout, allResults, results, selectedIndex, viewError>>

----------------------------------------------------------------------------
(* Bounds of the model *)

MaxLen == 3         \* longest filename given to _calculateRank / _boldMatchingText
MaxQLen == 2        \* longest query given to them

----------------------------------------------------------------------------
(* JavaScript strings *)

Min(a, b) == IF a < b THEN a ELSE b
Max(a, b) == IF a > b THEN a ELSE b

\* All strings over alphabet `alpha` of length lo..hi
StringsOver(alpha, lo, hi) == UNION {[1..n -> alpha] : n \in lo..hi}

\* String.prototype.toLowerCase, one code unit at a time (Unicode default case
\* conversion with SpecialCasing: U+0130 lower-cases to the two code units
\* U+0069 U+0307).
LowerOfChar(c) ==
    CASE c = "A" -> <<"a">>
      [] c = "B" -> <<"b">>
      [] c = "I" -> <<"i">>
      [] c = "U+0130" -> <<"i", "U+0307">>
      [] OTHER -> <<c>>

RECURSIVE toLowerCase(_)
toLowerCase(s) ==
    IF s = <<>> THEN <<>> ELSE LowerOfChar(Head(s)) \o toLowerCase(Tail(s))

\* does `q` occur in `s` at 0-based offset k
OccursAt(s, q, k) ==
    /\ k >= 0
    /\ k + Len(q) <= Len(s)
    /\ \A i \in 1..Len(q) : s[k + i] = q[i]

\* String.prototype.indexOf(q, from)
indexOf(s, q, from) ==
    LET start == Min(Max(from, 0), Len(s))
        hits == {k \in start..Len(s) : OccursAt(s, q, k)}
    IN IF hits = {} THEN -1 ELSE CHOOSE k \in hits : \A h \in hits : k <= h

\* String.prototype.lastIndexOf(c) for a one-unit string c
lastIndexOf(s, c) ==
    LET hits == {k \in 0..(Len(s) - 1) : s[k + 1] = c}
    IN IF hits = {} THEN -1 ELSE CHOOSE k \in hits : \A h \in hits : k >= h

\* String.prototype.substring(start, end): both clamped to [0, length],
\* swapped when start > end
substring(s, start, end) ==
    LET a == Min(Max(start, 0), Len(s))
        b == Min(Max(end, 0), Len(s))
        from == Min(a, b)
        to == Max(a, b)
    IN [i \in 1..(to - from) |-> s[from + i]]

includes(s, q) == indexOf(s, q, 0) >= 0
startsWith(s, q) == OccursAt(s, q, 0)

----------------------------------------------------------------------------
(* JavaScript numbers that may be infinite: _calculateRank's position and the
   comparator's return value *)

Num(n) == [k |-> "num", v |-> n]
Infinity == [k |-> "inf", v |-> 1]
NegInfinity == [k |-> "inf", v |-> -1]
NaN == [k |-> "nan", v |-> 0]

\* x - y
Minus(x, y) ==
    CASE x.k = "nan" \/ y.k = "nan" -> NaN
      [] x.k = "num" /\ y.k = "num" -> Num(x.v - y.v)
      [] x.k = "inf" /\ y.k = "num" -> x
      [] x.k = "num" /\ y.k = "inf" -> (IF y = Infinity THEN NegInfinity ELSE Infinity)
      [] OTHER -> IF x.v = y.v THEN NaN ELSE x

\* -1, 0, 1; NaN counts as 0, as Array.prototype.sort takes it
Sign(x) ==
    CASE x.k = "nan" -> 0
      [] x.k = "inf" -> x.v
      [] OTHER -> IF x.v < 0 THEN -1 ELSE IF x.v > 0 THEN 1 ELSE 0

----------------------------------------------------------------------------
(* _editDistance, _getBasename, _calculateRank *)

\* the cells (i, j), 1 <= i <= m, 1 <= j <= n, in the order the loops visit them
RECURSIVE FillDp(_, _, _, _, _)
FillDp(dp, s1, s2, i, j) ==
    IF i > Len(s1) THEN dp
    ELSE IF j > Len(s2) THEN FillDp(dp, s1, s2, i + 1, 1)
    ELSE LET cell == IF s1[i] = s2[j]
                     THEN dp[i - 1][j - 1]
                     ELSE Min(Min(dp[i - 1][j] + 1, dp[i][j - 1] + 1),
                              dp[i - 1][j - 1] + 1)
         IN FillDp([dp EXCEPT ![i][j] = cell], s1, s2, i, j + 1)

EditDistance(s1, s2) ==
    LET m == Len(s1)
        n == Len(s2)
        dp0 == [i \in 0..m |-> [j \in 0..n |->
                    IF j = 0 THEN i ELSE IF i = 0 THEN j ELSE 0]]
    IN FillDp(dp0, s1, s2, 1, 1)[m][n]

GetBasename(filename) ==
    LET lastDot == lastIndexOf(filename, ".")
    IN IF lastDot > 0 THEN substring(filename, 0, lastDot) ELSE filename

\* _calculateRank with the `|| basename === q` alternative of tier 1 left out
CalculateRankNoBasenameEqQuery(filename, qry, cs) ==
    LET fn == IF cs THEN filename ELSE toLowerCase(filename)
        q == IF cs THEN qry ELSE toLowerCase(qry)
        basename == GetBasename(fn)
        queryBasename == GetBasename(q)
        tp == IF fn = q THEN <<0, 0>>
              ELSE IF basename = queryBasename THEN <<1, 0>>
              ELSE IF startsWith(basename, q) THEN <<2, 0>>
              ELSE IF includes(basename, q) THEN <<3, indexOf(basename, q, 0)>>
              ELSE IF includes(fn, q) THEN <<4, indexOf(fn, q, 0)>>
              ELSE <<5, indexOf(fn, q, 0)>>
        editDist == EditDistance(basename, q)
    IN [tier |-> tp[1],
        editDist |-> editDist,
        length |-> Len(filename),
        position |-> IF tp[2] >= 0 THEN Num(tp[2]) ELSE Infinity]

CalculateRank(filename, qry, cs) ==
    LET fn == IF cs THEN filename ELSE toLowerCase(filename)
        q == IF cs THEN qry ELSE toLowerCase(qry)
        basename == GetBasename(fn)
        queryBasename == GetBasename(q)
        tp == IF fn = q THEN <<0, 0>>
              ELSE IF basename = queryBasename \/ basename = q THEN <<1, 0>>
              ELSE IF startsWith(basename, q) THEN <<2, 0>>
              ELSE IF includes(basename, q) THEN <<3, indexOf(basename, q, 0)>>
              ELSE IF includes(fn, q) THEN <<4, indexOf(fn, q, 0)>>
              ELSE <<5, indexOf(fn, q, 0)>>
        editDist == EditDistance(basename, q)
    IN [tier |-> tp[1],
        editDist |-> editDist,
        length |-> Len(filename),
        position |-> IF tp[2] >= 0 THEN Num(tp[2]) ELSE Infinity]

----------------------------------------------------------------------------
(* String.prototype.localeCompare: the collation of the host's ICU (CLDR root
   order). Strings are compared by their collation elements, canonically
   decomposed: first the primary weights (the base letters; punctuation before
   letters; a combining mark has none), then the secondary weights (accents),
   then the tertiary weights (lower case before upper case). Canonically
   equivalent strings compare equal, as ECMA-262 requires. *)

\* canonical decomposition (NFD) of one code unit
DecompositionOfChar(c) == IF c = "U+0130" THEN <<"I", "U+0307">> ELSE <<c>>

RECURSIVE Decompose(_)
Decompose(s) ==
    IF s = <<>> THEN <<>> ELSE DecompositionOfChar(Head(s)) \o Decompose(Tail(s))

PrimaryWeight(c) ==
    CASE c = "U+0307" -> 0
      [] c = "." -> 1
      [] c = "[" -> 2
      [] c \in {"a", "A"} -> 3
      [] c \in {"b", "B"} -> 4
      [] c \in {"i", "I"} -> 5
      [] OTHER -> 6

SecondaryWeight(c) == IF c = "U+0307" THEN 2 ELSE 1
TertiaryWeight(c) == IF c \in {"A", "B", "I"} THEN 2 ELSE 1

RECURSIVE Weights(_, _)
Weights(s, level) ==
    IF s = <<>> THEN <<>>
    ELSE LET c == Head(s)
             w == CASE level = 1 -> PrimaryWeight(c)
                    [] level = 2 -> SecondaryWeight(c)
                    [] OTHER -> TertiaryWeight(c)
         IN (IF w = 0 THEN <<>> ELSE <<w>>) \o Weights(Tail(s), level)

\* -1, 0, 1: lexicographic order of two weight sequences
RECURSIVE CompareWeights(_, _)
CompareWeights(u, w) ==
    IF u = <<>> THEN (IF w = <<>> THEN 0 ELSE -1)
    ELSE IF w = <<>> THEN 1
    ELSE IF Head(u) < Head(w) THEN -1
    ELSE IF Head(u) > Head(w) THEN 1
    ELSE CompareWeights(Tail(u), Tail(w))

localeCompare(a, b) ==
    LET da == Decompose(a)
        db == Decompose(b)
        c1 == CompareWeights(Weights(da, 1), Weights(db, 1))
        c2 == CompareWeights(Weights(da, 2), Weights(db, 2))
        c3 == CompareWeights(Weights(da, 3), Weights(db, 3))
    IN IF c1 # 0 THEN c1 ELSE IF c2 # 0 THEN c2 ELSE c3

----------------------------------------------------------------------------
(* _compareFilesByRelevance *)

\* _compareFilesByRelevance with the first two tie-breakers in the other order
CompareLengthBeforeEditDist(fA, fB, qry, cs) ==
    LET rankA == CalculateRank(fA, qry, cs)
        rankB == CalculateRank(fB, qry, cs)
    IN IF rankA.tier # rankB.tier THEN Num(rankA.tier - rankB.tier)
       ELSE IF rankA.length # rankB.length THEN Num(rankA.length - rankB.length)
       ELSE IF rankA.editDist # rankB.editDist THEN Num(rankA.editDist - rankB.editDist)
       ELSE IF rankA.position # rankB.position THEN Minus(rankA.position, rankB.position)
       ELSE Num(localeCompare(fA, fB))

CompareFilesByRelevance(fA, fB, qry, cs) ==
    LET rankA == CalculateRank(fA, qry, cs)
        rankB == CalculateRank(fB, qry, cs)
    IN IF rankA.tier # rankB.tier THEN Num(rankA.tier - rankB.tier)
       ELSE IF rankA.editDist # rankB.editDist THEN Num(rankA.editDist - rankB.editDist)
       ELSE IF rankA.length # rankB.length THEN Num(rankA.length - rankB.length)
       ELSE IF rankA.position # rankB.position THEN Minus(rankA.position, rankB.position)
       ELSE Num(localeCompare(fA, fB))

----------------------------------------------------------------------------
(* _boldMatchingText *)

\* the while loop of lines 252-259: every occurrence of q in fn from searchPos
\* on; `queryLength` is query.length, the length of the query as given
RECURSIVE FindPositions(_, _, _, _)
FindPositions(fn, q, queryLength, searchPos) ==
    IF searchPos < Len(fn)
    THEN LET index == indexOf(fn, q, searchPos)
         IN IF index = -1
            THEN <<>>
            ELSE <<[start |-> index, end |-> index + queryLength]>>
                 \o FindPositions(fn, q, queryLength, index + 1)
    ELSE <<>>

\* one iteration of the merge loop of lines 267-273 with `>=` for `>`
MergeOneKeepAdjacent(merged, pos) ==
    IF merged = <<>> \/ pos.start >= merged[Len(merged)].end
    THEN Append(merged, pos)
    ELSE [merged EXCEPT ![Len(merged)].end = Max(merged[Len(merged)].end, pos.end)]

\* one iteration of the merge loop of lines 267-273
MergeOne(merged, pos) ==
    IF merged = <<>> \/ pos.start > merged[Len(merged)].end
    THEN Append(merged, pos)
    ELSE [merged EXCEPT ![Len(merged)].end = Max(merged[Len(merged)].end, pos.end)]

RECURSIVE MergePositions(_, _)
MergePositions(merged, positions) ==
    IF positions = <<>> THEN merged
    ELSE MergePositions(MergeOne(merged, Head(positions)), Tail(positions))

\* the pieces of lines 279-280 cut from the normalized name
SpanPiecesOfNormalized(filename, fn, lastEnd, pos) ==
    <<[matched |-> FALSE, text |-> substring(fn, lastEnd, pos.start)],
      [matched |-> TRUE, text |-> substring(fn, pos.start, pos.end)]>>

\* the pieces appended for one merged span (lines 279-280): the literal text
\* before it and its own text, both cut from the original filename (fn, the
\* normalized name, is in scope there and not used)
SpanPieces(filename, fn, lastEnd, pos) ==
    <<[matched |-> FALSE, text |-> substring(filename, lastEnd, pos.start)],
      [matched |-> TRUE, text |-> substring(filename, pos.start, pos.end)]>>

\* the build loop of lines 278-283; the trailing piece is substring(lastEnd)
RECURSIVE BuildSegments(_, _, _, _)
BuildSegments(filename, fn, merged, lastEnd) ==
    IF merged = <<>>
    THEN <<[matched |-> FALSE, text |-> substring(filename, lastEnd, Len(filename))]>>
    ELSE SpanPieces(filename, fn, lastEnd, Head(merged))
         \o BuildSegments(filename, fn, Tail(merged), Head(merged).end)

\* `result +=` over the pieces: a matched piece is wrapped in '**'
RECURSIVE Render(_)
Render(segments) ==
    IF segments = <<>> THEN <<>>
    ELSE (IF Head(segments).matched
          THEN <<"*", "*">> \o Head(segments).text \o <<"*", "*">>
          ELSE Head(segments).text)
         \o Render(Tail(segments))

\* the returned string (result) with the positions, merged spans and pieces
\* it was built from
BoldMatchingText(filename, qry, cs) ==
    IF qry = <<>>
    THEN [positions |-> <<>>, merged |-> <<>>,
          segments |-> <<[matched |-> FALSE, text |-> filename]>>,
          result |-> filename]
    ELSE LET fn == IF cs THEN filename ELSE toLowerCase(filename)
             q == IF cs THEN qry ELSE toLowerCase(qry)
             positions == FindPositions(fn, q, Len(qry), 0)
             merged == MergePositions(<<>>, positions)
             segments == BuildSegments(filename, fn, merged, 0)
         IN IF positions = <<>>
            THEN [positions |-> <<>>, merged |-> <<>>,
                  segments |-> <<[matched |-> FALSE, text |-> filename]>>,
                  result |-> filename]
            ELSE [positions |-> positions, merged |-> merged,
                  segments |-> segments, result |-> Render(segments)]

----------------------------------------------------------------------------
(* The 'search' handler of resolveWebviewView (lines 46-91) *)

\* Canonicalize of a case-insensitive, non-unicode RegExp: the upper-case form
\* of the unit when that is a single unit
Canonicalize(c) ==
    CASE c = "a" -> "A"
      [] c = "b" -> "B"
      [] c = "i" -> "I"
      [] OTHER -> c

\* new RegExp(pattern, flags).test(name) for patterns made of literal units,
\* '.' (any unit) and '[' (a class; none is ever closed, no pattern has ']'):
\* "throw" is the SyntaxError of the constructor
RegExpTest(pattern, ignoreCase, name) ==
    IF \E i \in 1..Len(pattern) : pattern[i] = "["
    THEN "throw"
    ELSE IF \E k \in 0..(Len(name) - Len(pattern)) :
               \A i \in 1..Len(pattern) :
                  \/ pattern[i] = "."
                  \/ name[k + i] = pattern[i]
                  \/ ignoreCase /\ Canonicalize(name[k + i]) = Canonicalize(pattern[i])
         THEN "true"
         ELSE "false"

\* the filter callback without its try/catch
FileMatchesUncaught(fileName, data) ==
    IF data.useRegex
    THEN RegExpTest(data.value, ~data.caseSensitive, fileName)
    ELSE IF data.caseSensitive
         THEN (IF includes(fileName, data.value) THEN "true" ELSE "false")
         ELSE (IF includes(toLowerCase(fileName), toLowerCase(data.value))
               THEN "true" ELSE "false")

\* the filter callback of lines 59-77: "true", "false", or "throw" when an
\* exception leaves it
FileMatches(fileName, data) ==
    IF data.useRegex
    THEN LET r == RegExpTest(data.value, ~data.caseSensitive, fileName)
         IN IF r = "throw" THEN "false" ELSE r
    ELSE IF data.caseSensitive
         THEN (IF includes(fileName, data.value) THEN "true" ELSE "false")
         ELSE (IF includes(toLowerCase(fileName), toLowerCase(data.value))
               THEN "true" ELSE "false")

\* the map callback of lines 77-84; a file is known by its place in the
\* enumeration, which stands for its uri and relative path
RECURSIVE FilterMap(_, _, _)
FilterMap(allFiles, data, i) ==
    IF i > Len(allFiles) THEN <<>>
    ELSE (IF FileMatches(allFiles[i], data) = "true"
          THEN <<[uri |-> i,
                  label |-> allFiles[i],
                  boldedLabel |-> BoldMatchingText(allFiles[i], data.value,
                                                   data.caseSensitive).result]>>
          ELSE <<>>)
         \o FilterMap(allFiles, data, i + 1)

\* the sort callback of lines 85-87 with its arguments exchanged
SortCallbackReversed(a, b, data) ==
    CompareFilesByRelevance(b.label, a.label, data.value, data.caseSensitive)

\* the sort callback of lines 85-87
SortCallback(a, b, data) ==
    CompareFilesByRelevance(a.label, b.label, data.value, data.caseSensitive)

\* Array.prototype.sort, which is stable: e goes after the last entry that
\* the callback does not put after it
InsertSorted(sorted, e, data) ==
    LET after == {i \in 1..Len(sorted) : Sign(SortCallback(sorted[i], e, data)) > 0}
        at == IF after = {} THEN Len(sorted) + 1
              ELSE CHOOSE i \in after : \A j \in after : i <= j
    IN SubSeq(sorted, 1, at - 1) \o <<e>> \o SubSeq(sorted, at, Len(sorted))

RECURSIVE SortEntries(_, _, _)
SortEntries(sorted, entries, data) ==
    IF entries = <<>> THEN sorted
    ELSE SortEntries(InsertSorted(sorted, Head(entries), data), Tail(entries), data)

\* searchResults of line 59
SearchResults(allFiles, data) == SortEntries(<<>>, FilterMap(allFiles, data, 1), data)

\* does an exception leave the filter callback for some file
FilterThrows(allFiles, data) ==
    \E i \in 1..Len(allFiles) : FileMatches(allFiles[i], data) = "throw"

\* the host takes the next message of the webview, a 'search' (line 46); an
\* empty query is answered at once (lines 50-53), otherwise the handler
\* suspends at `await vscode.workspace.findFiles` (line 57)
HostReceive ==
    /\ toHost # <<>>
    /\ Head(toHost).type = "search"
    /\ LET msg == Head(toHost)
       IN IF msg.data.value = <<>>
          THEN /\ toWebview' = Append(toWebview, [type |-> "results", results |-> <<>>])
               /\ UNCHANGED awaiting
          ELSE /\ awaiting' = awaiting \cup {msg}
               /\ UNCHANGED toWebview
    /\ toHost' = Tail(toHost)
    /\ UNCHANGED <<workspace, hostError, pureVars, viewVars, sent>>

\* findFiles resolves for one suspended handler, which filters, maps, sorts
\* and posts the results (lines 59-89); an exception ends the handler with
\* nothing posted
FindFilesResolve ==
    \E h \in awaiting :
        /\ awaiting' = awaiting \ {h}
        /\ IF FilterThrows(workspace, h.data)
           THEN /\ hostError' = TRUE
                /\ UNCHANGED toWebview
           ELSE /\ toWebview' = Append(toWebview,
                        [type |-> "results", results |-> SearchResults(workspace, h.data)])
                /\ UNCHANGED hostError
        /\ UNCHANGED <<workspace, toHost, pureVars, viewVars, sent>>

\* the host takes the next message of the webview, an 'openFile' (lines
\* 92-99): the document is opened in an editor, which changes nothing the
\* search view holds
HostOpenFile ==
    /\ toHost # <<>>
    /\ Head(toHost).type = "openFile"
    /\ toHost' = Tail(toHost)
    /\ UNCHANGED <<workspace, awaiting, toWebview, hostError, pureVars, viewVars, sent>>

----------------------------------------------------------------------------
(* The webview script (media/main.js) *)

\* String.prototype.trim for the one white-space unit " "
RECURSIVE TrimStart(_)
TrimStart(s) == IF s # <<>> /\ Head(s) = " " THEN TrimStart(Tail(s)) ELSE s

RECURSIVE TrimEnd(_)
TrimEnd(s) ==
    IF s # <<>> /\ s[Len(s)] = " " THEN TrimEnd(SubSeq(s, 1, Len(s) - 1)) ELSE s

trim(s) == TrimEnd(TrimStart(s))

\* String.prototype.split(','): `piece` is the text since the last comma
RECURSIVE SplitAtCommas(_, _)
SplitAtCommas(s, piece) ==
    IF s = <<>> THEN <<piece>>
    ELSE IF Head(s) = "," THEN <<piece>> \o SplitAtCommas(Tail(s), <<>>)
    ELSE SplitAtCommas(Tail(s), Append(piece, Head(s)))

endsWith(s, suffix) ==
    Len(suffix) <= Len(s) /\ SubSeq(s, Len(s) - Len(suffix) + 1, Len(s)) = suffix

\* displayResults (lines 181-225): what it leaves in results and selectedIndex
DisplayResults(resultsList, selected) ==
    IF resultsList = <<>>
    THEN [results |-> <<>>, selectedIndex |-> -1]
    ELSE [results |-> resultsList, selectedIndex |-> selected]

\* applyFilter (lines 52-82)
ApplyFilter(all, filterText, selected) ==
    LET filterValue == trim(filterText)
        pieces == SplitAtCommas(filterValue, <<>>)
        suffixes == {toLowerCase(trim(pieces[i])) : i \in 1..Len(pieces)} \ {<<>>}
        Keeps(file) ==
            \E suffix \in suffixes :
                LET normalizedSuffix == IF startsWith(suffix, <<".">>)
                                        THEN suffix ELSE <<".">> \o suffix
                IN endsWith(toLowerCase(file.label), normalizedSuffix)
    IN IF filterValue = <<>> \/ suffixes = {}
       THEN DisplayResults(all, selected)
       ELSE DisplayResults(SelectSeq(all, Keeps), selected)

MaxRequests == 2     \* most 'search' requests of a session

\* the values the user leaves in the search box
InputValues == {<<>>, <<"a">>, <<".">>}

\* an 'input' event of the search box (line 99): triggerSearch re-arms the
\* debounce timer
SearchInputEvent ==
    /\ Len(sent) < MaxRequests
    /\ \E v \in InputValues \ {searchInput} : searchInput' = v
    /\ searchTimeout' = TRUE
    /\ UNCHANGED <<filterInput, isCaseSensitive, useRegex, allResults, results,
                   selectedIndex, viewError, hostVars, pureVars, sent>>

\* a click on the case toggle (lines 127-131)
CaseToggleClick ==
    /\ Len(sent) < MaxRequests
    /\ isCaseSensitive' = ~isCaseSensitive
    /\ searchTimeout' = TRUE
    /\ UNCHANGED <<searchInput, filterInput, useRegex, allResults, results,
                   selectedIndex, viewError, hostVars, pureVars, sent>>

\* a click on the regex toggle (lines 133-137)
RegexToggleClick ==
    /\ Len(sent) < MaxRequests
    /\ useRegex' = ~useRegex
    /\ searchTimeout' = TRUE
    /\ UNCHANGED <<searchInput, filterInput, isCaseSensitive, allResults, results,
                   selectedIndex, viewError, hostVars, pureVars, sent>>

\* the debounce timer fires (lines 87-96): the request is posted
SearchTimeoutFires ==
    /\ searchTimeout
    /\ searchTimeout' = FALSE
    /\ LET data == [value |-> searchInput,
                    caseSensitive |-> isCaseSensitive,
                    useRegex |-> useRegex]
       IN /\ toHost' = Append(toHost, [type |-> "search", id |-> Len(sent) + 1,
                                        data |-> data])
          /\ sent' = Append(sent, data)
    /\ UNCHANGED <<searchInput, filterInput, isCaseSensitive, useRegex, allResults,
                   results, selectedIndex, viewError, workspace, awaiting, toWebview,
                   hostError, pureVars>>

\* the 'message' listener takes a 'results' message (lines 227-234)
ResultsMessage ==
    /\ toWebview # <<>>
    /\ LET message == Head(toWebview)
           shown == ApplyFilter(message.results, filterInput, -1)
       IN /\ allResults' = message.results
          /\ results' = shown.results
          /\ selectedIndex' = shown.selectedIndex
    /\ toWebview' = Tail(toWebview)
    /\ UNCHANGED <<searchInput, filterInput, isCaseSensitive, useRegex, searchTimeout,
                   viewError, workspace, toHost, awaiting, hostError, pureVars, sent>>

\* the values the user leaves in the suffix-filter box
FilterValues == {<<>>, <<"a">>, <<".">>}

\* an 'input' event of the filter box (lines 101-103): applyFilter shows the
\* filtered list; selectedIndex is what displayResults leaves in it
FilterInputEvent ==
    /\ \E v \in FilterValues \ {filterInput} :
          /\ filterInput' = v
          /\ LET shown == ApplyFilter(allResults, v, selectedIndex)
             IN /\ results' = shown.results
                /\ selectedIndex' = shown.selectedIndex
    /\ UNCHANGED <<searchInput, isCaseSensitive, useRegex, searchTimeout, allResults,
                   viewError, hostVars, pureVars, sent>>

\* 'keydown' of the search box with ArrowDown (lines 107-114)
ArrowDownKey ==
    /\ Len(results) # 0
    /\ selectedIndex < Len(results) - 1
    /\ selectedIndex' = selectedIndex + 1
    /\ UNCHANGED <<searchInput, filterInput, isCaseSensitive, useRegex, searchTimeout,
                   allResults, results, viewError, hostVars, pureVars, sent>>

\* 'keydown' of the search box with ArrowUp (lines 107, 115-120)
ArrowUpKey ==
    /\ Len(results) # 0
    /\ selectedIndex > 0
    /\ selectedIndex' = selectedIndex - 1
    /\ UNCHANGED <<searchInput, filterInput, isCaseSensitive, useRegex, searchTimeout,
                   allResults, results, viewError, hostVars, pureVars, sent>>

MaxQueued == 2       \* most unhandled messages of the webview at the host

\* 'keydown' of the search box with Enter (lines 107, 121-124): openFile posts
\* results[selectedIndex].uri; where results has no such element the read of
\* `.uri` of undefined throws a TypeError out of the listener
EnterKey ==
    /\ Len(toHost) < MaxQueued
    /\ Len(results) # 0
    /\ selectedIndex >= 0
    /\ IF selectedIndex < Len(results)
       THEN /\ toHost' = Append(toHost, [type |-> "openFile",
                                         uri |-> results[selectedIndex + 1].uri])
            /\ UNCHANGED viewError
       ELSE /\ viewError' = TRUE
            /\ UNCHANGED toHost
    /\ UNCHANGED <<searchInput, filterInput, isCaseSensitive, useRegex, searchTimeout,
                   allResults, results, selectedIndex, workspace, awaiting, toWebview,
                   hostError, pureVars, sent>>

\* a click on the item displayResults built for results[index] (lines 210-221)
ItemClick ==
    /\ Len(toHost) < MaxQueued
    /\ \E index \in 0..(Len(results) - 1) :
          /\ selectedIndex' = index
          /\ toHost' = Append(toHost, [type |-> "openFile",
                                       uri |-> results[index + 1].uri])
    /\ UNCHANGED <<searchInput, filterInput, isCaseSensitive, useRegex, searchTimeout,
                   allResults, results, viewError, workspace, awaiting, toWebview,
                   hostError, pureVars, sent>>

----------------------------------------------------------------------------
(* Harness: one call of _calculateRank on inputs drawn from bounded sets *)

Alphabet == {"a", "A", ".", "U+0130"}
Names == StringsOver(Alphabet, 1, MaxLen)
Queries == StringsOver(Alphabet, 1, MaxQLen)

NoHost ==
    /\ workspace = <<>>
    /\ toHost = <<>>
    /\ awaiting = {}
    /\ toWebview = <<>>
    /\ hostError = FALSE

NoView ==
    /\ searchInput = <<>>
    /\ filterInput = <<>>
    /\ isCaseSensitive = FALSE
    /\ useRegex = FALSE
    /\ searchTimeout = FALSE
    /\ allResults = <<>>
    /\ results = <<>>
    /\ selectedIndex = -1
    /\ viewError = FALSE
    /\ sent = <<>>

NoPure ==
    /\ filenameA = <<>>
    /\ filenameB = <<>>
    /\ query = <<>>
    /\ caseSensitive = FALSE
    /\ pc = "none"
    /\ out = NaN

InitRank ==
    /\ filenameA \in Names
    /\ filenameB = <<>>
    /\ query \in Queries
    /\ caseSensitive \in BOOLEAN
    /\ pc = "call"
    /\ out = [tier |-> 5, editDist |-> 0, length |-> 0, position |-> Infinity]
    /\ NoHost
    /\ NoView

CallCalculateRank ==
    /\ pc = "call"
    /\ out' = CalculateRank(filenameA, query, caseSensitive)
    /\ pc' = "done"
    /\ UNCHANGED <<filenameA, filenameB, query, caseSensitive, hostVars, viewVars, sent>>

SpecRank == InitRank /\ [][CallCalculateRank]_vars

----------------------------------------------------------------------------
(* Harness: one call of _compareFilesByRelevance *)

MaxCmpLen == 3      \* longest filename given to _compareFilesByRelevance

CmpAlphabet == {"I", "U+0130", "U+0307"}
CmpNames == StringsOver(CmpAlphabet, 1, MaxCmpLen)
CmpQueries == {<<"I">>, <<"I", ".">>}

InitCompare ==
    /\ filenameA \in CmpNames
    /\ filenameB \in CmpNames
    /\ query \in CmpQueries
    /\ caseSensitive \in BOOLEAN
    /\ pc = "call"
    /\ out = NaN
    /\ NoHost
    /\ NoView

CallCompare ==
    /\ pc = "call"
    /\ out' = CompareFilesByRelevance(filenameA, filenameB, query, caseSensitive)
    /\ pc' = "done"
    /\ UNCHANGED <<filenameA, filenameB, query, caseSensitive, hostVars, viewVars, sent>>

SpecCompare == InitCompare /\ [][CallCompare]_vars

----------------------------------------------------------------------------
(* Harness: one call of _boldMatchingText *)

InitBold ==
    /\ filenameA \in Names
    /\ filenameB = <<>>
    /\ query \in StringsOver(Alphabet, 0, MaxQLen)
    /\ caseSensitive \in BOOLEAN
    /\ pc = "call"
    /\ out = [positions |-> <<>>, merged |-> <<>>, segments |-> <<>>, result |-> <<>>]
    /\ NoHost
    /\ NoView

CallBoldMatchingText ==
    /\ pc = "call"
    /\ out' = BoldMatchingText(filenameA, query, caseSensitive)
    /\ pc' = "done"
    /\ UNCHANGED <<filenameA, filenameB, query, caseSensitive, hostVars, viewVars, sent>>

SpecBold == InitBold /\ [][CallBoldMatchingText]_vars

----------------------------------------------------------------------------
(* One 'search' request against any small workspace *)

MaxFiles == 2        \* most files in the workspace
MaxFileLen == 2      \* longest file name in the workspace
MaxValueLen == 1     \* longest query of the request

FileAlphabet == {"A", "."}
ValueAlphabet == {"a", ".", "["}
Workspaces == StringsOver(StringsOver(FileAlphabet, 1, MaxFileLen), 0, MaxFiles)
Requests == [value : StringsOver(ValueAlphabet, 0, MaxValueLen),
             caseSensitive : BOOLEAN,
             useRegex : BOOLEAN]

InitSearch ==
    /\ workspace \in Workspaces
    /\ \E data \in Requests :
          /\ toHost = <<[type |-> "search", id |-> 1, data |-> data]>>
          /\ sent = <<data>>
    /\ awaiting = {}
    /\ toWebview = <<>>
    /\ hostError = FALSE
    /\ NoPure
    /\ searchInput = <<>>
    /\ filterInput = <<>>
    /\ isCaseSensitive = FALSE
    /\ useRegex = FALSE
    /\ searchTimeout = FALSE
    /\ allResults = <<>>
    /\ results = <<>>
    /\ selectedIndex = -1
    /\ viewError = FALSE

SpecSearch == InitSearch /\ [][HostReceive \/ FindFilesResolve]_vars

----------------------------------------------------------------------------
(* A session: the webview, started without a saved state, and the host over
   one workspace *)

SessionWorkspaces ==
    {<< <<"A">>, <<".", "A">> >>, << <<"A", ".">>, <<".">>, <<"A", "A">> >>}

Init ==
    /\ workspace \in SessionWorkspaces
    /\ toHost = <<>>
    /\ awaiting = {}
    /\ toWebview = <<>>
    /\ hostError = FALSE
    /\ NoPure
    /\ NoView

Next ==
    \/ SearchInputEvent
    \/ CaseToggleClick
    \/ RegexToggleClick
    \/ SearchTimeoutFires
    \/ HostReceive
    \/ HostOpenFile
    \/ FindFilesResolve
    \/ ResultsMessage
    \/ FilterInputEvent
    \/ ArrowDownKey
    \/ ArrowUpKey
    \/ EnterKey
    \/ ItemClick

Spec == Init /\ [][Next]_vars

----------------------------------------------------------------------------
(* Claims about _calculateRank *)

\* the normalized text the claims speak of
Normalized(s, cs) == IF cs THEN s ELSE toLowerCase(s)

\* the least number of single-unit insertions, deletions and substitutions
\* turning s into t
RECURSIVE Levenshtein(_, _)
Levenshtein(s, t) ==
    IF s = <<>> THEN Len(t)
    ELSE IF t = <<>> THEN Len(s)
    ELSE Min(Min(Levenshtein(Tail(s), t) + 1, Levenshtein(s, Tail(t)) + 1),
             Levenshtein(Tail(s), Tail(t)) + (IF Head(s) = Head(t) THEN 0 ELSE 1))

\* q occurs somewhere in s / the first offset at which it does
Contains(s, q) == \E k \in 0..Len(s) : OccursAt(s, q, k)
FirstOffset(s, q) == CHOOSE k \in 0..Len(s) :
    OccursAt(s, q, k) /\ \A h \in 0..(k - 1) : ~OccursAt(s, q, h)

\* the text before the last dot, unless that dot is the first unit or missing
BasenameOf(s) ==
    IF \E k \in 2..Len(s) : s[k] = "."
    THEN LET d == CHOOSE k \in 2..Len(s) : s[k] = "." /\ \A h \in (k + 1)..Len(s) : s[h] # "."
         IN SubSeq(s, 1, d - 1)
    ELSE s

(* C1: whenever the normalized filename equals the normalized query,
   _calculateRank returns tier 0, editDistance 0 and matchPosition 0. *)
C1_ExactMatchRank ==
    (pc = "done" /\ Normalized(filenameA, caseSensitive) = Normalized(query, caseSensitive))
        => (out.tier = 0 /\ out.editDist = 0 /\ out.position = Num(0))

(* C2: the editDistance returned by _calculateRank is the Levenshtein distance
   between the normalized basename of the filename and the normalized basename
   of the query. *)
C2_EditDistanceOfBasenames ==
    pc = "done" =>
        out.editDist = Levenshtein(BasenameOf(Normalized(filenameA, caseSensitive)),
                                   BasenameOf(Normalized(query, caseSensitive)))

(* C3: (tier, matchPosition) follow the first-matching-rule-wins ladder: 0 exact
   name, 1 exact basename, 2 basename prefix, 3 basename substring (position =
   first offset in the basename, >= 1), 4 substring of the full name (position =
   first offset in the name), 5 otherwise with the position absent; the
   position is absent exactly in tier 5. *)
C3_TierLadder ==
    pc = "done" =>
        LET n == Normalized(filenameA, caseSensitive)
            q == Normalized(query, caseSensitive)
            b == BasenameOf(n)
            r0 == n = q
            r1 == b = BasenameOf(q) \/ b = q
            r2 == Len(q) <= Len(b) /\ SubSeq(b, 1, Len(q)) = q
            r3 == Contains(b, q)
            r4 == Contains(n, q)
        IN /\ out.tier \in 0..5
           /\ out.tier = 0 <=> r0
           /\ out.tier = 1 <=> ~r0 /\ r1
           /\ out.tier = 2 <=> ~r0 /\ ~r1 /\ r2
           /\ out.tier = 3 <=> ~r0 /\ ~r1 /\ ~r2 /\ r3
           /\ out.tier = 4 <=> ~r0 /\ ~r1 /\ ~r2 /\ ~r3 /\ r4
           /\ out.tier = 5 <=> ~r0 /\ ~r1 /\ ~r2 /\ ~r3 /\ ~r4
           /\ out.tier \in 0..2 => out.position = Num(0)
           /\ out.tier = 3 => out.position = Num(FirstOffset(b, q)) /\ out.position.v >= 1
           /\ out.tier = 4 => out.position = Num(FirstOffset(n, q))
           /\ out.tier = 5 <=> out.position = Infinity

\* a tier-1 result obtained from the `basename = query` alternative alone
C3_Witness ==
    /\ pc = "done"
    /\ out.tier = 1
    /\ BasenameOf(Normalized(filenameA, caseSensitive)) # BasenameOf(Normalized(query, caseSensitive))

----------------------------------------------------------------------------
(* Claims about _compareFilesByRelevance *)

\* -1, 0, 1: order of two integers
IntSign(a, b) == IF a < b THEN -1 ELSE IF a > b THEN 1 ELSE 0

\* the match position as a sort key: absent is greater than every offset
PositionSign(p1, p2) ==
    IF p1 = Infinity /\ p2 = Infinity THEN 0
    ELSE IF p1 = Infinity THEN 1
    ELSE IF p2 = Infinity THEN -1
    ELSE IntSign(p1.v, p2.v)

\* sign of the lexicographic comparison of (tier, editDistance, nameLength,
\* matchPosition, name), the last key given as the sign `alpha`
KeySign(r1, r2, alpha) ==
    IF r1.tier # r2.tier THEN IntSign(r1.tier, r2.tier)
    ELSE IF r1.editDist # r2.editDist THEN IntSign(r1.editDist, r2.editDist)
    ELSE IF r1.length # r2.length THEN IntSign(r1.length, r2.length)
    ELSE IF PositionSign(r1.position, r2.position) # 0
         THEN PositionSign(r1.position, r2.position)
    ELSE alpha

CmpSign(a, b) == Sign(CompareFilesByRelevance(a, b, query, caseSensitive))

\* the comparator is the key order, antisymmetric and transitive
C5_Order ==
    LET rA == CalculateRank(filenameA, query, caseSensitive)
        rB == CalculateRank(filenameB, query, caseSensitive)
    IN /\ out.k # "nan"
       /\ Sign(out) = KeySign(rA, rB, localeCompare(filenameA, filenameB))
       /\ Sign(out) = 0 - CmpSign(filenameB, filenameA)
       /\ \A c \in StringsOver(CmpAlphabet, 1, MaxCmpLen - 1) :
              LET bc == CmpSign(filenameB, c)
                  ac == CmpSign(filenameA, c)
              IN /\ (Sign(out) <= 0 /\ bc <= 0) => ac <= 0
                 /\ (Sign(out) < 0 /\ bc <= 0) => ac < 0
                 /\ (Sign(out) <= 0 /\ bc < 0) => ac < 0

(* C5 as stated: the comparator is the lexicographic key order, antisymmetric,
   transitive, and returns 0 only when A and B are the same name string. *)
C5_TotalOrderOnStrings ==
    pc = "done" => (C5_Order /\ (Sign(out) = 0 => filenameA = filenameB))

(* C5 as amended: the comparator is the lexicographic key order, antisymmetric,
   transitive, and returns 0 exactly when A and B are the same string or
   canonically equivalent strings (equal after canonical decomposition). *)
C5_TotalOrderUpToEquivalence ==
    pc = "done" =>
        (/\ C5_Order
         /\ Sign(out) = 0 => Decompose(filenameA) = Decompose(filenameB)
         /\ filenameA = filenameB => Sign(out) = 0)

\* two different names tie on every key
C5_Witness ==
    /\ pc = "done"
    /\ Sign(out) = 0
    /\ filenameA # filenameB

----------------------------------------------------------------------------
(* Claims about _boldMatchingText *)

RECURSIVE ConcatTexts(_)
ConcatTexts(segments) ==
    IF segments = <<>> THEN <<>> ELSE Head(segments).text \o ConcatTexts(Tail(segments))

\* a string without its '*' units (no filename of the harness has one)
RECURSIVE WithoutMarkers(_)
WithoutMarkers(s) ==
    IF s = <<>> THEN <<>>
    ELSE (IF Head(s) = "*" THEN <<>> ELSE <<Head(s)>>) \o WithoutMarkers(Tail(s))

(* C6: for a non-empty query the emitted pieces, in order, concatenate to the
   original filename, and so does the returned string once its bold markers
   are removed. *)
C6_RoundTrip ==
    (pc = "done" /\ query # <<>>) =>
        /\ ConcatTexts(out.segments) = filenameA
        /\ WithoutMarkers(out.result) = filenameA

\* a match was emitted from a name that normalization changes
C6_Witness ==
    /\ pc = "done"
    /\ query # <<>>
    /\ out.merged # <<>>
    /\ ~caseSensitive
    /\ toLowerCase(filenameA) # filenameA

(* C7: the merged spans are non-empty, increasing, and neither overlap nor
   touch: each span starts strictly after the previous one ends; "aaa" with
   query "aa" gives the single span [0,3). *)
C7_MergedSpansSeparated ==
    (pc = "done" /\ query # <<>>) =>
        /\ \A i \in 1..Len(out.merged) : out.merged[i].start < out.merged[i].end
        /\ \A i \in 1..(Len(out.merged) - 1) : out.merged[i].end < out.merged[i + 1].start
        /\ (filenameA = <<"a", "a", "a">> /\ query = <<"a", "a">>)
               => out.merged = <<[start |-> 0, end |-> 3]>>

\* overlapping or touching occurrences were merged
C7_Witness ==
    /\ pc = "done"
    /\ query # <<>>
    /\ Len(out.merged) >= 1
    /\ Len(out.positions) > Len(out.merged)

\* the offset in the normalized name at which the image of the name's unit p
\* begins (p itself when normalization keeps every unit)
NormalizedOffset(name, cs, p) == Len(Normalized(SubSeq(name, 1, p), cs))

\* unit p of the name lies inside some occurrence of the normalized query in
\* the normalized name
InsideOccurrence(name, qry, cs, p) ==
    LET fn == Normalized(name, cs)
        q == Normalized(qry, cs)
    IN \E k \in 0..Len(fn) :
          /\ OccursAt(fn, q, k)
          /\ k < NormalizedOffset(name, cs, p + 1)
          /\ NormalizedOffset(name, cs, p) < k + Len(q)

InsideMatchedSpan(merged, p) ==
    \E i \in 1..Len(merged) : merged[i].start <= p /\ p < merged[i].end

(* C8: a unit of the name lies inside a matched span exactly when it lies
   inside some occurrence of the normalized query in the normalized name; when
   the query occurs nowhere, the output is the name as one literal piece. *)
C8_MatchedIffOccurrence ==
    (pc = "done" /\ query # <<>>) =>
        /\ \A p \in 0..(Len(filenameA) - 1) :
              InsideMatchedSpan(out.merged, p)
                  <=> InsideOccurrence(filenameA, query, caseSensitive, p)
        /\ ~Contains(Normalized(filenameA, caseSensitive), Normalized(query, caseSensitive))
              => /\ out.result = filenameA
                 /\ out.segments = <<[matched |-> FALSE, text |-> filenameA]>>

----------------------------------------------------------------------------
(* Claims about the search handler *)

TierOf(entry, data) == CalculateRank(entry.label, data.value, data.caseSensitive).tier

(* C4: in every posted result list an entry of a strictly lower tier comes
   before every entry of a higher tier. *)
C4_LowerTierFirst ==
    \A m \in 1..Len(toWebview) :
        LET list == toWebview[m].results
        IN \A i, j \in 1..Len(list) :
              TierOf(list[i], sent[1]) < TierOf(list[j], sent[1]) => i < j

\* a regex search posted entries of different tiers, among them tier 5, that
\* the enumeration had in the other order
C4_Witness ==
    /\ Len(toWebview) = 1
    /\ sent[1].useRegex
    /\ LET list == toWebview[1].results
       IN /\ Len(list) >= 2
          /\ TierOf(list[1], sent[1]) < TierOf(list[Len(list)], sent[1])
          /\ TierOf(list[Len(list)], sent[1]) = 5
          /\ list[1].uri > list[Len(list)].uri

InvalidRegex(data) == data.useRegex /\ RegExpTest(data.value, FALSE, <<>>) = "throw"

(* C9: in regex mode a query that is no valid regular expression is answered
   with an empty result list: no exception leaves the handler, and once the
   request is handled exactly one 'results' message, with no entry, has been
   posted. *)
C9_InvalidRegexEmpty ==
    InvalidRegex(sent[1]) =>
        /\ ~hostError
        /\ \A m \in 1..Len(toWebview) : toWebview[m] = [type |-> "results", results |-> <<>>]
        /\ (toHost = <<>> /\ awaiting = {}) => Len(toWebview) = 1

\* an invalid pattern was tried on a non-empty enumeration and answered
C9_Witness ==
    /\ InvalidRegex(sent[1])
    /\ workspace # <<>>
    /\ toHost = <<>>
    /\ awaiting = {}
    /\ Len(toWebview) = 1

----------------------------------------------------------------------------
(* Claims about a session *)

\* the answer the handler computes for a request over the workspace
AnswerTo(data) == IF data.value = <<>> THEN <<>> ELSE SearchResults(workspace, data)

\* every request sent has been answered and every answer delivered
AllAnswered == sent # <<>> /\ toHost = <<>> /\ awaiting = {} /\ toWebview = <<>>

(* C10: once every outstanding search request has been answered, the result
   list the webview holds is the one computed for the most recently sent query
   and flags, and the list it shows is that one under the suffix filter. *)
C10_LatestResultsShown ==
    AllAnswered =>
        /\ allResults = AnswerTo(sent[Len(sent)])
        /\ results = ApplyFilter(AnswerTo(sent[Len(sent)]), filterInput, -1).results

(* C11: in every state of the webview selectedIndex is -1 or an index into
   the displayed results (-1 <= selectedIndex < results.length), and no Enter
   key has read a result entry that does not exist. *)
C11_SelectedIndexInRange ==
    /\ -1 <= selectedIndex
    /\ selectedIndex < Len(results)
    /\ ~viewError

====
